---- MODULE Spec2Model ----
(***************************************************************************)
(* Model of the social-cli client (src/main.rs): the borsh wire format of  *)
(* SocialInstruction, the program-derived addresses and account lists that *)
(* each SocialClient method builds, send_instruction's two RPC calls, and  *)
(* UserProfile::follow.                                                    *)
(*                                                                         *)
(* Strings are sequences of Unicode code points, byte strings sequences of *)
(* 0..255, a Pubkey a sequence of PUBKEY_BYTES bytes.                      *)
(***************************************************************************)
EXTENDS Integers, Sequences, FiniteSets, TLC

VARIABLES
    program_id,  \* the program id the SocialClient was constructed with
    pc,          \* position of the client: "idle", "get_latest_blockhash", "send_and_confirm_transaction"
    call,        \* the SocialClient method being run (or last run) and its arguments
    derived,     \* the seed lists handed to get_social_pda in this call, in call order
    ins,         \* the Instruction built by this call: program_id, data, accounts
    tx,          \* the Transaction signed by send_instruction in this call
    rpc_log,     \* the RPC calls made by this call, in order, with what each returned
    result,      \* what the method returned to its caller
    latest,      \* the cluster's latest blockhash
    profile,     \* a UserProfile value: data_len, followers
    follow_arg,  \* the argument of the last UserProfile::follow call
    wire_op,     \* the SocialInstruction that is serialized
    wire,        \* a payload: bytes on the wire
    wire_edits,  \* how many times the payload was altered after serialization
    decoded      \* what deserializing the payload returned

vars == <<program_id, pc, call, derived, ins, tx, rpc_log, result, latest,
          profile, follow_arg, wire_op, wire, wire_edits, decoded>>

client_vars == <<program_id, pc, call, derived, ins, tx, rpc_log, result, latest>>
profile_vars == <<profile, follow_arg>>
wire_vars == <<wire_op, wire, wire_edits, decoded>>

\* The absence of a record value, and of a tuple value.
None == [none |-> TRUE]
Nothing == <<"None">>

----------------------------------------------------------------------------
(* Bounds of the model.                                                    *)

NumUsers == 2          \* keypairs that call the client
MaxContentLen == 1     \* characters in a post's content, in the client model
MaxStrLen == 2         \* characters in a serialized string, in the codec model
MaxSmallId == 1        \* post ids 0..MaxSmallId, besides the ids around 2^8 and 2^64
NumBlockhashes == 2    \* distinct blockhashes the cluster moves through
MaxEdits == 1          \* alterations of a payload before it is deserialized
MaxFollows == 6        \* follow calls made on one UserProfile in the profile model
NearWrap == 2          \* the preloaded profile is NearWrap follows short of 2^16

(* Program constants.                                                      *)

PUBKEY_BYTES == 32     \* a Pubkey is [u8; 32]
U8_BITS == 8           \* `id as u8`
U16_BITS == 16         \* `self.followers.len() as u16`

----------------------------------------------------------------------------
(* Bytes, strings and keys.                                                *)

\* A Pubkey all of whose bytes are b.
KeyFill(b) == [i \in 1..PUBKEY_BYTES |-> b]

RECURSIVE Flatten(_)
Flatten(seqs) == IF seqs = <<>> THEN <<>> ELSE Head(seqs) \o Flatten(Tail(seqs))

\* The UTF-8 encoding of one code point.
Utf8Char(c) ==
    IF c < 128 THEN <<c>>
    ELSE IF c < 2048 THEN <<192 + (c \div 64), 128 + (c % 64)>>
    ELSE IF c < 65536
         THEN <<224 + (c \div 4096), 128 + ((c \div 64) % 64), 128 + (c % 64)>>
         ELSE <<240 + (c \div 262144), 128 + ((c \div 4096) % 64),
                128 + ((c \div 64) % 64), 128 + (c % 64)>>

\* str::as_bytes: the UTF-8 bytes of a string.
RECURSIVE as_bytes(_)
as_bytes(s) == IF s = <<>> THEN <<>> ELSE Utf8Char(Head(s)) \o as_bytes(Tail(s))

IsCont(b) == b >= 128 /\ b <= 191

\* The number of bytes a UTF-8 sequence with this lead byte has; 0 when the
\* byte cannot lead a sequence.
Utf8Width(b) ==
    IF b < 128 THEN 1
    ELSE IF b >= 194 /\ b <= 223 THEN 2
    ELSE IF b >= 224 /\ b <= 239 THEN 3
    ELSE IF b >= 240 /\ b <= 244 THEN 4
    ELSE 0

\* The code point of the UTF-8 sequence of width w at the head of b.
Utf8Point(b, w) ==
    IF w = 1 THEN b[1]
    ELSE IF w = 2 THEN (b[1] - 192) * 64 + (b[2] - 128)
    ELSE IF w = 3 THEN (b[1] - 224) * 4096 + (b[2] - 128) * 64 + (b[3] - 128)
    ELSE (b[1] - 240) * 262144 + (b[2] - 128) * 4096 + (b[3] - 128) * 64 + (b[4] - 128)

\* Whether a sequence of width w starts b: continuation bytes present, not
\* overlong, not a surrogate, not above U+10FFFF.
Utf8Valid(b, w) ==
    /\ w > 0
    /\ Len(b) >= w
    /\ \A i \in 2..w : IsCont(b[i])
    /\ LET c == Utf8Point(b, w)
       IN  /\ w = 3 => c >= 2048 /\ ~(c >= 55296 /\ c <= 57343)
           /\ w = 4 => c >= 65536 /\ c <= 1114111

\* String::from_utf8: the string, or an error on invalid UTF-8.
RECURSIVE from_utf8(_)
from_utf8(b) ==
    IF b = <<>> THEN [ok |-> TRUE, s |-> <<>>]
    ELSE LET w == Utf8Width(b[1])
         IN  IF ~Utf8Valid(b, w) THEN [ok |-> FALSE, s |-> <<>>]
             ELSE LET rest == from_utf8(SubSeq(b, w + 1, Len(b)))
                  IN  IF rest.ok
                      THEN [ok |-> TRUE, s |-> <<Utf8Point(b, w)>> \o rest.s]
                      ELSE rest

\* "profile" and "post" as code points.
USER_PROFILE_SEED == <<112, 114, 111, 102, 105, 108, 101>>
USER_POST_SEED == <<112, 111, 115, 116>>

----------------------------------------------------------------------------
(* The borsh wire format that SocialInstruction derives.                   *)

\* The variants of SocialInstruction, in declaration order.
Variants == <<"Init", "Follow", "Unfollow", "QueryFollows", "Post", "QueryPosts">>

Init_(s) == <<"Init", s>>
Follow(k) == <<"Follow", k>>
Unfollow(k) == <<"Unfollow", k>>
QueryFollows == <<"QueryFollows">>
Post(s) == <<"Post", s>>
QueryPosts == <<"QueryPosts">>

\* VariantIndex counting from one.
VariantIndex_FromOne(tag) == CHOOSE i \in 1..Len(Variants) : Variants[i] = tag

\* The discriminant of a variant: its index in declaration order, one byte.
VariantIndex(tag) == (CHOOSE i \in 1..Len(Variants) : Variants[i] = tag) - 1

\* u32 in little-endian order.
Le32(n) == <<n % 256, (n \div 256) % 256, (n \div 65536) % 256, (n \div 16777216) % 256>>

FromLe32(b) == b[1] + (b[2] * 256) + (b[3] * 65536) + (b[4] * 16777216)

\* SerializeString with the length in characters.
SerializeString_CharCount(s) == Le32(Len(s)) \o as_bytes(s)

\* String: the byte length as u32, then the UTF-8 bytes.
SerializeString(s) == Le32(Len(as_bytes(s))) \o as_bytes(s)

\* BorshSerialize for SocialInstruction: the discriminant, then the fields.
Serialize(op) ==
    <<VariantIndex(op[1])>> \o
        (CASE op[1] \in {"Init", "Post"} -> SerializeString(op[2])
           [] op[1] \in {"Follow", "Unfollow"} -> op[2]
           [] OTHER -> <<>>)

Ok(v, rest) == <<"Ok", v, rest>>
Err(msg) == <<"Err", msg>>
IsOk(r) == r[1] = "Ok"

\* String: a u32 length, that many bytes, which must be UTF-8.
DeserializeString(b) ==
    IF Len(b) < 4 THEN Err("Unexpected length of input")
    ELSE LET n == FromLe32(b)
         IN  \* a length of 2^31 or more exceeds any input of the model
             IF b[4] >= 128 \/ Len(b) - 4 < n THEN Err("Unexpected length of input")
             ELSE LET s == from_utf8(SubSeq(b, 5, 4 + n))
                  IN  IF s.ok THEN Ok(s.s, SubSeq(b, 5 + n, Len(b)))
                      ELSE Err("invalid utf-8 sequence")

\* DeserializePubkey that fills a short key with zeros.
DeserializePubkey_Padded(b) ==
    IF Len(b) < PUBKEY_BYTES
    THEN Ok(b \o [i \in 1..(PUBKEY_BYTES - Len(b)) |-> 0], <<>>)
    ELSE Ok(SubSeq(b, 1, PUBKEY_BYTES), SubSeq(b, PUBKEY_BYTES + 1, Len(b)))

\* Pubkey: PUBKEY_BYTES raw bytes.
DeserializePubkey(b) ==
    IF Len(b) < PUBKEY_BYTES THEN Err("Unexpected length of input")
    ELSE Ok(SubSeq(b, 1, PUBKEY_BYTES), SubSeq(b, PUBKEY_BYTES + 1, Len(b)))

\* BorshDeserialize::deserialize for SocialInstruction: reads the discriminant,
\* then the fields of that variant; returns the value and the unread bytes.
Deserialize(b) ==
    IF Len(b) < 1 THEN Err("Unexpected length of input")
    ELSE IF b[1] >= Len(Variants) THEN Err("Unexpected variant index")
    ELSE LET tag == Variants[b[1] + 1]
             body == Tail(b)
         IN  CASE tag \in {"Init", "Post"} ->
                    LET f == DeserializeString(body)
                    IN  IF IsOk(f) THEN Ok(<<tag, f[2]>>, f[3]) ELSE f
               [] tag \in {"Follow", "Unfollow"} ->
                    LET f == DeserializePubkey(body)
                    IN  IF IsOk(f) THEN Ok(<<tag, f[2]>>, f[3]) ELSE f
               [] OTHER -> Ok(<<tag>>, body)

\* BorshDeserialize::try_from_slice: deserialize, and all bytes must be read.
try_from_slice(b) ==
    LET r == Deserialize(b)
    IN  IF IsOk(r) /\ r[3] # <<>> THEN Err("Not all bytes read") ELSE r

----------------------------------------------------------------------------
(* Addresses, account lists and instructions.                              *)

Users == 1..NumUsers

\* Keypair::pubkey of the user's keypair.
pubkey(user) == KeyFill(user)

\* The keys a follow or unfollow can name: every user's, and one more.
Pubkeys == {KeyFill(b) : b \in 1..(NumUsers + 1)}

\* The program ids a SocialClient is constructed with.
ProgramIds == {KeyFill(171), KeyFill(172)}

\* solana_sdk::system_program::id(): the all-zero key.
SYSTEM_PROGRAM_ID == KeyFill(0)

\* Post ids are u64; the model draws them from the small ids, the ids
\* around 2^8, and 2^31 - 1.
U8_MAX == (2 ^ U8_BITS) - 1
Ids == (0..MaxSmallId) \cup {U8_MAX, U8_MAX + 1, U8_MAX + 2, 2147483647}

\* AsU8 without the truncation.
AsU8_Wide(id) == id

\* `id as u8`: the low eight bits.
AsU8(id) == id % (2 ^ U8_BITS)

\* "ProgramDerivedAddress"
PDA_MARKER == <<80, 114, 111, 103, 114, 97, 109, 68, 101, 114, 105, 118, 101, 100,
                65, 100, 100, 114, 101, 115, 115>>

\* Pubkey::find_program_address hashes the seeds one after another, then a
\* bump, the program id and a marker. The hash is taken to be injective: an
\* address is represented by what is hashed (the bump left out).
find_program_address(seeds, program) ==
    Flatten(seeds) \o program \o PDA_MARKER

get_social_pda(program, seed) == find_program_address(seed, program)

\* AccountMeta::new: a writable account.
AccountMeta_new(key, is_signer) ==
    [pubkey |-> key, is_signer |-> is_signer, is_writable |-> TRUE]

\* AccountMeta::new_readonly: a read-only account.
AccountMeta_new_readonly(key, is_signer) ==
    [pubkey |-> key, is_signer |-> is_signer, is_writable |-> FALSE]

\* Instruction::new_with_borsh: the data is the borsh serialization.
Instruction_new_with_borsh(program, data, accounts) ==
    [program_id |-> program, data |-> Serialize(data), accounts |-> accounts]

\* The seeds each method hands to get_social_pda.
\* InitUserSeeds with the seed type before the authority.
InitUserSeeds_Reordered(user, seed_type) == <<as_bytes(seed_type), pubkey(user)>>

InitUserSeeds(user, seed_type) == <<pubkey(user), as_bytes(seed_type)>>
FollowUserSeeds(user) == <<pubkey(user), as_bytes(USER_PROFILE_SEED)>>
QueryFollowSeeds(user) == <<pubkey(user), as_bytes(USER_PROFILE_SEED)>>
UnfollowUserSeeds(user) == <<pubkey(user), as_bytes(USER_PROFILE_SEED)>>
PostSeeds(user) == <<pubkey(user), as_bytes(USER_POST_SEED)>>
PostSlotSeeds(user, id) == <<pubkey(user), as_bytes(USER_POST_SEED), <<AsU8(id)>>>>
QueryPostSeeds(user) == <<pubkey(user), as_bytes(USER_POST_SEED)>>
QueryPostSlotSeeds(user, id) == <<pubkey(user), as_bytes(USER_POST_SEED), <<AsU8(id)>>>>

\* The account lists each method builds.
InitUserAccounts(user, social_pda) ==
    << AccountMeta_new(pubkey(user), TRUE),
       AccountMeta_new(social_pda, FALSE),
       AccountMeta_new_readonly(SYSTEM_PROGRAM_ID, FALSE) >>

FollowUserAccounts(social_pda) == << AccountMeta_new(social_pda, FALSE) >>

QueryFollowAccounts(social_pda) == << AccountMeta_new(social_pda, FALSE) >>

UnfollowUserAccounts(social_pda) == << AccountMeta_new(social_pda, FALSE) >>

\* PostAccounts with the container and the slot in the other order.
PostAccounts_Swapped(user, social_pda, social_post_pda) ==
    << AccountMeta_new(pubkey(user), TRUE),
       AccountMeta_new(social_post_pda, FALSE),
       AccountMeta_new(social_pda, FALSE),
       AccountMeta_new_readonly(SYSTEM_PROGRAM_ID, FALSE) >>

PostAccounts(user, social_pda, social_post_pda) ==
    << AccountMeta_new(pubkey(user), TRUE),
       AccountMeta_new(social_pda, FALSE),
       AccountMeta_new(social_post_pda, FALSE),
       AccountMeta_new_readonly(SYSTEM_PROGRAM_ID, FALSE) >>

QueryPostAccounts(social_pda, social_post_pda) ==
    << AccountMeta_new(social_pda, FALSE),
       AccountMeta_new(social_post_pda, FALSE) >>

----------------------------------------------------------------------------
(* The SocialClient methods.                                               *)

\* All strings of at most n characters over chars.
Strings(chars, n) == UNION {[1..k -> chars] : k \in 0..n}

\* 'a', U+00E9 (two bytes in UTF-8) and U+4E2D (three bytes).
Chars == {97, 233, 20013}

SeedTypes == {USER_PROFILE_SEED, USER_POST_SEED, <<>>}
Contents == Strings({97}, MaxContentLen)
Blockhashes == 1..NumBlockhashes

\* The errors an RPC call can return.
ClientErrors == {"io", "rpc"}

NoCall == [kind |-> "none", user |-> 0, seed_type |-> <<>>, target |-> <<>>,
           content |-> <<>>, id |-> 0]

Call(kind, user) == [NoCall EXCEPT !.kind = kind, !.user = user]

\* Transaction::new_signed_with_payer.
Transaction_new_signed_with_payer(instructions, payer, signers, recent_blockhash) ==
    [instructions |-> instructions, fee_payer |-> payer, signers |-> signers,
     recent_blockhash |-> recent_blockhash]

\* The signature of a transaction: that of its first signer over its content.
SignatureOf(t) == [signer |-> t.signers[1], instructions |-> t.instructions,
                   recent_blockhash |-> t.recent_blockhash]

\* A method has built its instruction and calls send_instruction, which
\* starts with the get_latest_blockhash RPC call.
Begin(c, seeds, instruction) ==
    /\ pc = "idle"
    /\ call' = c
    /\ derived' = seeds
    /\ ins' = instruction
    /\ tx' = None
    /\ rpc_log' = <<>>
    /\ result' = Nothing
    /\ pc' = "get_latest_blockhash"
    /\ UNCHANGED <<program_id, latest, profile_vars, wire_vars>>

init_user(user, seed_type) ==
    LET seeds == InitUserSeeds(user, seed_type)
        social_pda == get_social_pda(program_id, seeds)
        init_user_data == Init_(seed_type)
        init_user_acc == InitUserAccounts(user, social_pda)
    IN  Begin([Call("init_user", user) EXCEPT !.seed_type = seed_type],
              <<seeds>>,
              Instruction_new_with_borsh(program_id, init_user_data, init_user_acc))

follow_user(user, follow) ==
    LET seeds == FollowUserSeeds(user)
        social_pda == get_social_pda(program_id, seeds)
        follow_user_data == Follow(follow)
        follow_user_acc == FollowUserAccounts(social_pda)
    IN  Begin([Call("follow_user", user) EXCEPT !.target = follow],
              <<seeds>>,
              Instruction_new_with_borsh(program_id, follow_user_data, follow_user_acc))

query_follow(user) ==
    LET seeds == QueryFollowSeeds(user)
        social_pda == get_social_pda(program_id, seeds)
        query_follow_data == QueryFollows
        query_follow_acc == QueryFollowAccounts(social_pda)
    IN  Begin(Call("query_follow", user),
              <<seeds>>,
              Instruction_new_with_borsh(program_id, query_follow_data, query_follow_acc))

unfollow_user(user, follow) ==
    LET seeds == UnfollowUserSeeds(user)
        social_pda == get_social_pda(program_id, seeds)
        unfollow_user_data == Unfollow(follow)
        unfollow_user_acc == UnfollowUserAccounts(social_pda)
    IN  Begin([Call("unfollow_user", user) EXCEPT !.target = follow],
              <<seeds>>,
              Instruction_new_with_borsh(program_id, unfollow_user_data, unfollow_user_acc))

post(user, content, id) ==
    LET seeds == PostSeeds(user)
        slot_seeds == PostSlotSeeds(user, id)
        social_pda == get_social_pda(program_id, seeds)
        social_post_pda == get_social_pda(program_id, slot_seeds)
        user_post_data == Post(content)
        user_post_acc == PostAccounts(user, social_pda, social_post_pda)
    IN  Begin([Call("post", user) EXCEPT !.content = content, !.id = id],
              <<seeds, slot_seeds>>,
              Instruction_new_with_borsh(program_id, user_post_data, user_post_acc))

query_post(user, id) ==
    LET seeds == QueryPostSeeds(user)
        slot_seeds == QueryPostSlotSeeds(user, id)
        social_pda == get_social_pda(program_id, seeds)
        social_post_pda == get_social_pda(program_id, slot_seeds)
        query_post_data == QueryPosts
        query_post_acc == QueryPostAccounts(social_pda, social_post_pda)
    IN  Begin([Call("query_post", user) EXCEPT !.id = id],
              <<seeds, slot_seeds>>,
              Instruction_new_with_borsh(program_id, query_post_data, query_post_acc))

----------------------------------------------------------------------------
(* send_instruction: one get_latest_blockhash call, then the transaction   *)
(* is signed with the blockhash it returned and handed to one              *)
(* send_and_confirm_transaction call; `?` returns either call's error.     *)

RpcCall(name, arg, ret) == [rpc |-> name, arg |-> arg, ret |-> ret]

\* BlockhashFetched that signs with a blockhash kept from construction.
BlockhashFetched_Cached(latest_blockhash) ==
    /\ tx' = Transaction_new_signed_with_payer(<<ins>>, pubkey(call.user),
                                                <<pubkey(call.user)>>, 1)
    /\ pc' = "send_and_confirm_transaction"
    /\ UNCHANGED result

\* What the method does once get_latest_blockhash has returned a blockhash.
BlockhashFetched(latest_blockhash) ==
    /\ tx' = Transaction_new_signed_with_payer(<<ins>>, pubkey(call.user),
                                                <<pubkey(call.user)>>, latest_blockhash)
    /\ pc' = "send_and_confirm_transaction"
    /\ UNCHANGED result

\* RpcFailed that starts send_instruction over instead of returning.
RpcFailed_Retry(e) ==
    /\ pc' = "get_latest_blockhash"
    /\ UNCHANGED <<result, tx>>

\* What the method does once an RPC call has returned an error.
RpcFailed(e) ==
    /\ result' = <<"Err", e>>
    /\ pc' = "idle"
    /\ UNCHANGED tx

\* What the method does once send_and_confirm_transaction has returned a signature.
Confirmed(sign) ==
    /\ result' = <<"Ok">>
    /\ pc' = "idle"
    /\ UNCHANGED tx

GetLatestBlockhashOk ==
    /\ pc = "get_latest_blockhash"
    /\ rpc_log' = Append(rpc_log, RpcCall("get_latest_blockhash", None, <<"Ok", latest>>))
    /\ BlockhashFetched(latest)
    /\ UNCHANGED <<program_id, call, derived, ins, latest, profile_vars, wire_vars>>

GetLatestBlockhashErr(e) ==
    /\ pc = "get_latest_blockhash"
    /\ rpc_log' = Append(rpc_log, RpcCall("get_latest_blockhash", None, <<"Err", e>>))
    /\ RpcFailed(e)
    /\ UNCHANGED <<program_id, call, derived, ins, latest, profile_vars, wire_vars>>

SendAndConfirmOk ==
    /\ pc = "send_and_confirm_transaction"
    /\ rpc_log' = Append(rpc_log, RpcCall("send_and_confirm_transaction", tx,
                                           <<"Ok", SignatureOf(tx)>>))
    /\ Confirmed(SignatureOf(tx))
    /\ UNCHANGED <<program_id, call, derived, ins, latest, profile_vars, wire_vars>>

SendAndConfirmErr(e) ==
    /\ pc = "send_and_confirm_transaction"
    /\ rpc_log' = Append(rpc_log, RpcCall("send_and_confirm_transaction", tx, <<"Err", e>>))
    /\ RpcFailed(e)
    /\ UNCHANGED <<program_id, call, derived, ins, latest, profile_vars, wire_vars>>

\* The cluster produces a block: the latest blockhash changes.
NewBlock ==
    /\ \E h \in Blockhashes \ {latest} : latest' = h
    /\ UNCHANGED <<program_id, pc, call, derived, ins, tx, rpc_log, result,
                   profile_vars, wire_vars>>

----------------------------------------------------------------------------
(* UserProfile.                                                            *)

\* AsU16 without the truncation.
AsU16_Wide(n) == n

\* `as u16`: the low sixteen bits.
AsU16(n) == n % (2 ^ U16_BITS)

\* UserProfile::new
UserProfile_new == [data_len |-> 0, followers |-> <<>>]

\* UserProfile::follow
UserProfile_follow(self, follower) ==
    LET followers == Append(self.followers, follower)
    IN  [data_len |-> AsU16(Len(followers)), followers |-> followers]

\* A UserProfile that NearWrap more follow calls take to 2^16 followers: the
\* value reached from UserProfile::new() by that many follow calls, each
\* with the first user's key.
PreloadLen == (2 ^ U16_BITS) - NearWrap
Preloaded ==
    [data_len |-> PreloadLen, followers |-> [i \in 1..PreloadLen |-> KeyFill(1)]]

\* The keys that follow is called with.
FollowerKeys == {KeyFill(1), KeyFill(2)}

FollowCall(follower) ==
    /\ \/ Len(profile.followers) < MaxFollows
       \/ /\ Len(profile.followers) >= PreloadLen
          /\ Len(profile.followers) < PreloadLen + MaxFollows
    /\ profile' = UserProfile_follow(profile, follower)
    /\ follow_arg' = follower
    /\ UNCHANGED <<client_vars, wire_vars>>

----------------------------------------------------------------------------
(* Payloads on the wire: serialized, altered in transit, deserialized.     *)

\* The SocialInstruction values of the codec model.
Ops ==
    {Init_(s) : s \in Strings(Chars, MaxStrLen)} \cup
    {Post(s) : s \in Strings(Chars, MaxStrLen)} \cup
    {Follow(k) : k \in Pubkeys} \cup {Unfollow(k) : k \in Pubkeys} \cup
    {QueryFollows, QueryPosts}

\* The byte values an alteration writes: discriminants, defined and not,
\* small and large length bytes, a UTF-8 continuation byte.
EditBytes == {0, 1, 5, 6, 99, 128, 255}

\* The positions an alteration overwrites: the discriminant, a string's
\* length prefix and its first bytes.
EditPositions == 1..7

\* Whether the operation has been serialized (no serialization is empty).
Serialized == wire # <<>> \/ wire_edits > 0

SerializeOp ==
    /\ ~Serialized
    /\ wire' = Serialize(wire_op)
    /\ UNCHANGED <<wire_op, wire_edits, decoded, client_vars, profile_vars>>

Truncate(n) ==
    /\ Serialized
    /\ wire_edits < MaxEdits
    /\ n < Len(wire)
    /\ wire' = SubSeq(wire, 1, n)
    /\ wire_edits' = wire_edits + 1
    /\ decoded' = Nothing
    /\ UNCHANGED <<wire_op, client_vars, profile_vars>>

Overwrite(i, b) ==
    /\ Serialized
    /\ wire_edits < MaxEdits
    /\ i <= Len(wire)
    /\ wire[i] # b
    /\ wire' = [wire EXCEPT ![i] = b]
    /\ wire_edits' = wire_edits + 1
    /\ decoded' = Nothing
    /\ UNCHANGED <<wire_op, client_vars, profile_vars>>

Extend(b) ==
    /\ Serialized
    /\ wire_edits < MaxEdits
    /\ wire' = Append(wire, b)
    /\ wire_edits' = wire_edits + 1
    /\ decoded' = Nothing
    /\ UNCHANGED <<wire_op, client_vars, profile_vars>>

DeserializeWire ==
    /\ Serialized
    /\ decoded = Nothing
    /\ decoded' = try_from_slice(wire)
    /\ UNCHANGED <<wire_op, wire, wire_edits, client_vars, profile_vars>>

----------------------------------------------------------------------------
(* Specifications.                                                         *)

Init ==
    /\ program_id \in ProgramIds
    /\ pc = "idle"
    /\ call = NoCall
    /\ derived = <<>>
    /\ ins = None
    /\ tx = None
    /\ rpc_log = <<>>
    /\ result = Nothing
    /\ latest \in Blockhashes
    /\ profile = UserProfile_new
    /\ follow_arg = <<>>
    /\ wire_op = Nothing
    /\ wire = <<>>
    /\ wire_edits = 0
    /\ decoded = Nothing

\* The client: any method, called by any user with any arguments, and the
\* outcomes of its RPC calls.
Next ==
    \/ \E user \in Users, seed_type \in SeedTypes : init_user(user, seed_type)
    \/ \E user \in Users, follow \in Pubkeys : follow_user(user, follow)
    \/ \E user \in Users : query_follow(user)
    \/ \E user \in Users, follow \in Pubkeys : unfollow_user(user, follow)
    \/ \E user \in Users, content \in Contents, id \in Ids : post(user, content, id)
    \/ \E user \in Users, id \in Ids : query_post(user, id)
    \/ GetLatestBlockhashOk
    \/ \E e \in ClientErrors : GetLatestBlockhashErr(e)
    \/ SendAndConfirmOk
    \/ \E e \in ClientErrors : SendAndConfirmErr(e)
    \/ NewBlock

Spec == Init /\ [][Next]_vars

\* The codec: an operation is serialized, the payload possibly altered, and
\* the payload deserialized.
NextCodec ==
    \/ SerializeOp
    \/ \E n \in 0..(PUBKEY_BYTES + 1) : Truncate(n)
    \/ \E i \in EditPositions, b \in EditBytes : Overwrite(i, b)
    \/ \E b \in EditBytes : Extend(b)
    \/ DeserializeWire

\* The codec and UserProfile do not involve the client: it stays as constructed.
ClientIdle ==
    /\ program_id = KeyFill(171)
    /\ pc = "idle"
    /\ call = NoCall
    /\ derived = <<>>
    /\ ins = None
    /\ tx = None
    /\ rpc_log = <<>>
    /\ result = Nothing
    /\ latest = 1

InitCodec ==
    /\ ClientIdle
    /\ profile = UserProfile_new
    /\ follow_arg = <<>>
    /\ wire_op \in Ops
    /\ wire = <<>>
    /\ wire_edits = 0
    /\ decoded = Nothing

SpecCodec == InitCodec /\ [][NextCodec]_vars

\* UserProfile, from a new profile or from one close to 2^16 followers.
InitProfile ==
    /\ ClientIdle
    /\ profile \in {UserProfile_new, Preloaded}
    /\ follow_arg = <<>>
    /\ wire_op = Nothing
    /\ wire = <<>>
    /\ wire_edits = 0
    /\ decoded = Nothing

NextProfile == \E follower \in FollowerKeys : FollowCall(follower)

SpecProfile == InitProfile /\ [][NextProfile]_vars

----------------------------------------------------------------------------
(* Properties of the client.                                               *)

Called == call.kind # "none"
Returned == Called /\ pc = "idle"

\* An account reference: address, writable, signer.
AccountRef(key, writable, signer) ==
    [pubkey |-> key, is_signer |-> signer, is_writable |-> writable]

\* The seed lists of the seed conventions, as bytes.
ProfileBytes == <<112, 114, 111, 102, 105, 108, 101>>
PostBytes == <<112, 111, 115, 116>>
AuthorityBytes == KeyFill(call.user)
ProfileAddress == find_program_address(<<AuthorityBytes, ProfileBytes>>, program_id)
ContainerAddress == find_program_address(<<AuthorityBytes, PostBytes>>, program_id)
SlotAddressOf(index) ==
    find_program_address(<<AuthorityBytes, PostBytes, <<index>>>>, program_id)
SeedTypeAddress ==
    find_program_address(<<AuthorityBytes, as_bytes(call.seed_type)>>, program_id)

\* C1: for every operation kind the account list the client builds has the
\* length, the order and the (writable, signer) flags of the account table.
C1_AccountTable ==
    Called =>
        ins.accounts =
            CASE call.kind = "init_user" ->
                    << AccountRef(AuthorityBytes, TRUE, TRUE),
                       AccountRef(SeedTypeAddress, TRUE, FALSE),
                       AccountRef(KeyFill(0), FALSE, FALSE) >>
              [] call.kind \in {"follow_user", "unfollow_user", "query_follow"} ->
                    << AccountRef(ProfileAddress, TRUE, FALSE) >>
              [] call.kind = "post" ->
                    << AccountRef(AuthorityBytes, TRUE, TRUE),
                       AccountRef(ContainerAddress, TRUE, FALSE),
                       AccountRef(SlotAddressOf(call.id % 256), TRUE, FALSE),
                       AccountRef(KeyFill(0), FALSE, FALSE) >>
              [] call.kind = "query_post" ->
                    << AccountRef(ContainerAddress, TRUE, FALSE),
                       AccountRef(SlotAddressOf(call.id % 256), TRUE, FALSE) >>

\* A post was submitted and confirmed with its four accounts.
C1_Witness ==
    /\ Returned /\ call.kind = "post" /\ result = <<"Ok">>
    /\ Len(ins.accounts) = 4
    /\ ins.accounts[3].pubkey = SlotAddressOf(1)

\* The derived addresses among the accounts of the instruction, in order.
DerivedAccounts ==
    CASE call.kind \in {"init_user", "post"} ->
            [i \in 1..(Len(ins.accounts) - 2) |-> ins.accounts[i + 1].pubkey]
      [] OTHER -> [i \in 1..Len(ins.accounts) |-> ins.accounts[i].pubkey]

\* C2: every derived address comes from the client's program id and the
\* seeds of the seed conventions, in their order; init_user carries its seed
\* type in the Init payload, and with "profile" / "post" it addresses the
\* account that follow, unfollow, query_follow / post, query_post address.
C2_SeedConventions ==
    Called =>
        /\ derived =
             CASE call.kind = "init_user" ->
                     << <<AuthorityBytes, as_bytes(call.seed_type)>> >>
               [] call.kind \in {"follow_user", "unfollow_user", "query_follow"} ->
                     << <<AuthorityBytes, ProfileBytes>> >>
               [] call.kind \in {"post", "query_post"} ->
                     << <<AuthorityBytes, PostBytes>>,
                        <<AuthorityBytes, PostBytes, <<call.id % 256>>>> >>
        /\ DerivedAccounts = [i \in 1..Len(derived) |->
                                 find_program_address(derived[i], program_id)]
        /\ ins.program_id = program_id
        /\ call.kind = "init_user" =>
             /\ try_from_slice(ins.data) = <<"Ok", <<"Init", call.seed_type>>, <<>>>>
             /\ call.seed_type = USER_PROFILE_SEED =>
                  /\ ins.accounts[2] = FollowUserAccounts(
                         get_social_pda(program_id, FollowUserSeeds(call.user)))[1]
                  /\ ins.accounts[2] = UnfollowUserAccounts(
                         get_social_pda(program_id, UnfollowUserSeeds(call.user)))[1]
                  /\ ins.accounts[2] = QueryFollowAccounts(
                         get_social_pda(program_id, QueryFollowSeeds(call.user)))[1]
             /\ call.seed_type = USER_POST_SEED =>
                  /\ \A id \in Ids :
                       ins.accounts[2] = PostAccounts(call.user,
                           get_social_pda(program_id, PostSeeds(call.user)),
                           get_social_pda(program_id, PostSlotSeeds(call.user, id)))[2]
                  /\ \A id \in Ids :
                       ins.accounts[2] = QueryPostAccounts(
                           get_social_pda(program_id, QueryPostSeeds(call.user)),
                           get_social_pda(program_id, QueryPostSlotSeeds(call.user, id)))[1]

\* init_user with the "post" seed type was submitted and confirmed.
C2_Witness ==
    /\ Returned /\ call.kind = "init_user" /\ result = <<"Ok">>
    /\ call.seed_type = USER_POST_SEED
    /\ ins.accounts[2].pubkey = ContainerAddress

\* C3: post with an empty content returns an error before any RPC call is
\* attempted.
C3_EmptyContentRejected ==
    (call.kind = "post" /\ call.content = <<>>) =>
        /\ pc = "idle"
        /\ rpc_log = <<>>
        /\ result[1] = "Err"

RpcCount(name) == Cardinality({i \in DOMAIN rpc_log : rpc_log[i].rpc = name})

\* C4: in one call the blockhash is fetched at most once and the transaction
\* submitted at most once; a failed RPC call is the last one of the call and
\* its error is what the call returns; the call returns Ok only when its one
\* submission was confirmed.
C4_NoRetry ==
    /\ RpcCount("get_latest_blockhash") <= 1
    /\ RpcCount("send_and_confirm_transaction") <= 1
    /\ \A i \in DOMAIN rpc_log :
         rpc_log[i].ret[1] = "Err" =>
            /\ i = Len(rpc_log)
            /\ pc = "idle"
            /\ result = <<"Err", rpc_log[i].ret[2]>>
    /\ result = <<"Ok">> =>
         /\ Len(rpc_log) = 2
         /\ rpc_log[2].rpc = "send_and_confirm_transaction"
         /\ rpc_log[2].ret[1] = "Ok"
    /\ Returned => result # Nothing
    /\ (Returned /\ result[1] = "Err") =>
         rpc_log[Len(rpc_log)].ret = result

\* The submission failed after one fetch, and the call returned that error.
C4_Witness ==
    /\ Returned /\ result = <<"Err", "rpc">>
    /\ Len(rpc_log) = 2
    /\ rpc_log[2].rpc = "send_and_confirm_transaction"

\* C5: the fetch is the first step of every send_instruction; the
\* transaction is signed only after it, with the blockhash that this call's
\* fetch returned, and that transaction is the one submitted; when the fetch
\* fails nothing is signed or submitted.
C5_FreshToken ==
    /\ (Called /\ pc # "get_latest_blockhash") =>
         /\ Len(rpc_log) >= 1
         /\ rpc_log[1].rpc = "get_latest_blockhash"
    /\ pc = "get_latest_blockhash" => (rpc_log = <<>> /\ tx = None)
    /\ tx # None =>
         /\ Len(rpc_log) >= 1
         /\ rpc_log[1].rpc = "get_latest_blockhash"
         /\ rpc_log[1].ret[1] = "Ok"
         /\ rpc_log[1].ret[2] = tx.recent_blockhash
         /\ tx.instructions = <<ins>>
         /\ tx.fee_payer = KeyFill(call.user)
         /\ tx.signers = <<KeyFill(call.user)>>
    /\ \A i \in DOMAIN rpc_log :
         rpc_log[i].rpc = "send_and_confirm_transaction" =>
            /\ i = 2
            /\ rpc_log[i].arg = tx
            /\ rpc_log[1].ret[1] = "Ok"
    /\ (Len(rpc_log) >= 1 /\ rpc_log[1].ret[1] = "Err") =>
         (tx = None /\ Len(rpc_log) = 1)

\* A transaction was confirmed that carries the blockhash fetched by its
\* call, while the cluster has since moved on to another.
C5_Witness ==
    /\ Returned /\ result = <<"Ok">>
    /\ tx.recent_blockhash = 2
    /\ latest = 1

\* C8: every payload starts with the one-byte discriminant of its variant,
\* 0 to 5 in declaration order, followed by the fields of the variant only:
\* 32 raw key bytes for Follow and Unfollow (33 bytes in all), a
\* length-prefixed string for Init and Post, nothing for the queries.
C8_WireLayout ==
    Called =>
        LET data == ins.data
            fields == Tail(data)
        IN  /\ Len(data) >= 1
            /\ data[1] = CASE call.kind = "init_user" -> 0
                           [] call.kind = "follow_user" -> 1
                           [] call.kind = "unfollow_user" -> 2
                           [] call.kind = "query_follow" -> 3
                           [] call.kind = "post" -> 4
                           [] call.kind = "query_post" -> 5
            /\ call.kind \in {"follow_user", "unfollow_user"} =>
                 (Len(data) = 33 /\ fields = call.target)
            /\ call.kind \in {"query_follow", "query_post"} => fields = <<>>
            /\ call.kind \in {"init_user", "post"} =>
                 LET s == IF call.kind = "post" THEN call.content ELSE call.seed_type
                 IN  fields = <<Len(s), 0, 0, 0>> \o s

\* follow_user of the key that is no user's was submitted: 33 bytes.
C8_Witness ==
    /\ Returned /\ call.kind = "follow_user" /\ result = <<"Ok">>
    /\ call.target = KeyFill(NumUsers + 1)
    /\ ins.data = <<1>> \o KeyFill(NumUsers + 1)

\* The post-slot account of the instruction.
SlotAccount == IF call.kind = "post" THEN ins.accounts[3] ELSE ins.accounts[2]

\* C9: the slot seed is the single byte id mod 256, so for a user and a
\* program post and query_post address the same slot for the ids i and j
\* exactly when i mod 256 = j mod 256: 256 wraps to the slot of 0.
C9_SlotWraps ==
    call.kind \in {"post", "query_post"} =>
        /\ derived[2][3] = <<call.id % 256>>
        /\ SlotAccount.pubkey = find_program_address(derived[2], program_id)
        /\ \A j \in Ids :
             /\ (j % 256 = call.id % 256) <=>
                  (get_social_pda(program_id, PostSlotSeeds(call.user, j)) = SlotAccount.pubkey)
             /\ (j % 256 = call.id % 256) <=>
                  (get_social_pda(program_id, QueryPostSlotSeeds(call.user, j))
                      = SlotAccount.pubkey)

\* post with id 256 addressed the slot of id 0.
C9_Witness ==
    /\ Returned /\ call.kind = "post" /\ call.id = 256
    /\ derived[2][3] = <<0>>
    /\ SlotAccount.pubkey = SlotAddressOf(0)

----------------------------------------------------------------------------
(* Properties of the codec.                                                *)

\* C6: deserializing the serialization of an operation returns that
\* operation, and no other operation serializes to the same bytes.
C6_RoundTrip ==
    (wire # <<>> /\ wire_edits = 0) =>
        /\ decoded # Nothing => decoded = <<"Ok", wire_op, <<>>>>
        /\ \A other \in Ops : Serialize(other) = wire => other = wire_op

\* A Post whose content has multi-byte characters was deserialized.
C6_Witness ==
    /\ wire # <<>> /\ wire_edits = 0
    /\ wire_op = <<"Post", <<233, 20013>>>>
    /\ decoded = <<"Ok", <<"Post", <<233, 20013>>>>, <<>>>>

\* The length prefix of a string payload exceeds the bytes that follow it.
LengthPrefixTooLong ==
    /\ Len(wire) >= 5
    /\ \/ wire[5] > 0 \/ wire[4] > 0 \/ wire[3] > 0
       \/ wire[2] > Len(wire) - 5

\* C7: a payload with an undefined discriminant fails as an unrecognized
\* variant; a payload with a defined discriminant and a short key, a short
\* length prefix or a length prefix longer than the remaining bytes fails
\* as an unexpected length; whatever is returned as a value is the value
\* whose serialization the payload is.
C7_NoDefaulting ==
    decoded # Nothing =>
        /\ (Len(wire) >= 1 /\ wire[1] >= 6) =>
             decoded = <<"Err", "Unexpected variant index">>
        /\ (Len(wire) >= 1 /\ wire[1] \in {1, 2} /\ Len(wire) < 33) =>
             decoded = <<"Err", "Unexpected length of input">>
        /\ (Len(wire) >= 1 /\ wire[1] \in {0, 4}
              /\ (Len(wire) < 5 \/ LengthPrefixTooLong)) =>
             decoded = <<"Err", "Unexpected length of input">>
        /\ decoded[1] \in {"Ok", "Err"}
        /\ decoded[1] = "Ok" =>
             /\ decoded[2][1] = Variants[wire[1] + 1]
             /\ Serialize(decoded[2]) = wire

\* A payload whose discriminant was overwritten with 99 was rejected.
C7_Witness ==
    /\ wire_edits > 0
    /\ Len(wire) = 33
    /\ wire[1] = 99
    /\ decoded = <<"Err", "Unexpected variant index">>

\* A Follow payload cut short was rejected.
C7_WitnessTruncated ==
    /\ wire_edits > 0
    /\ Len(wire) = 32
    /\ wire[1] = 1
    /\ decoded = <<"Err", "Unexpected length of input">>

----------------------------------------------------------------------------
(* Properties of UserProfile.                                              *)

\* data_len is the number of followers modulo 2^16, hence the number of
\* followers exactly when that number is below 2^16.
DataLenTruncated ==
    /\ profile.data_len = Len(profile.followers) % 65536
    /\ (profile.data_len = Len(profile.followers)) <=> (Len(profile.followers) < 65536)

\* C10: data_len is the number of followers truncated to 16 bits, and every
\* follow appends its argument at the end, whatever the followers are.
C10_DataLen ==
    /\ []DataLenTruncated
    /\ [][profile'.followers = Append(profile.followers, follow_arg')]_profile_vars

\* The 2^16-th follower was added, again the same key, and data_len is 0.
C10_Witness ==
    /\ Len(profile.followers) = 65536
    /\ profile.data_len = 0
    /\ profile.followers[65536] = profile.followers[65535]

====
